---- MODULE Spec2Model ----
(***************************************************************************)
(* aleph-language: the precedence-ladder expression parser                 *)
(* (src/src/parser.rs) and the evaluator with its two-tier numeric tower   *)
(* (src/src/value.rs).                                                     *)
(*                                                                         *)
(* An i64 and the significand of an FBig do not fit TLC's 32-bit integers, *)
(* so both are carried as a sign and a magnitude, the magnitude a little-  *)
(* endian sequence of limbs.  All arithmetic on them is exact; the widths  *)
(* of the program (64-bit two's complement, REAL_PRECISION bits of         *)
(* significand) are applied where the program applies them.                *)
(***************************************************************************)
EXTENDS Integers, Sequences, FiniteSets, TLC

VARIABLES
    input,            \* the text handed to parse_expression, as its lexemes
    parsed,           \* what parse_expression returned for it
    variables,        \* the contents of the map behind `variables: &BTreeMap`
    loaded,           \* the environment as it was built at load time
    expression,       \* the tree handed to Value::evaluate
    outcome,          \* what Value::evaluate returned
    overflow_checks,  \* the build: TRUE = overflow checks on (debug), FALSE = off
    pc

vars == <<input, parsed, variables, loaded, expression, outcome, overflow_checks, pc>>

(***************************************************************************)
(* Magnitudes: natural numbers of any size.                                *)
(***************************************************************************)
\* a limb holds 15 bits, so that a product of two limbs fits a TLC integer
Base == 2^15
LimbBits == CHOOSE k \in 1..30 : 2^k = Base

RECURSIVE MagNorm(_)
MagNorm(m) ==
    IF m = <<>> THEN m
    ELSE IF m[Len(m)] = 0 THEN MagNorm(SubSeq(m, 1, Len(m) - 1)) ELSE m

Limb(m, i) == IF i <= Len(m) THEN m[i] ELSE 0

RECURSIVE MagCmpFrom(_, _, _)
MagCmpFrom(a, b, i) ==
    IF i = 0 THEN 0
    ELSE IF a[i] < b[i] THEN -1
    ELSE IF a[i] > b[i] THEN 1
    ELSE MagCmpFrom(a, b, i - 1)

MagCmp(a, b) ==
    IF Len(a) < Len(b) THEN -1
    ELSE IF Len(a) > Len(b) THEN 1
    ELSE MagCmpFrom(a, b, Len(a))

RECURSIVE MagAddFrom(_, _, _, _)
MagAddFrom(a, b, i, carry) ==
    IF i > Len(a) /\ i > Len(b)
    THEN IF carry = 0 THEN <<>> ELSE <<carry>>
    ELSE LET s == Limb(a, i) + Limb(b, i) + carry
         IN  <<s % Base>> \o MagAddFrom(a, b, i + 1, s \div Base)

MagAdd(a, b) == MagAddFrom(a, b, 1, 0)

\* a - b for a >= b
RECURSIVE MagSubFrom(_, _, _, _)
MagSubFrom(a, b, i, borrow) ==
    IF i > Len(a) THEN <<>>
    ELSE LET d == a[i] - Limb(b, i) - borrow
         IN  IF d < 0 THEN <<d + Base>> \o MagSubFrom(a, b, i + 1, 1)
                      ELSE <<d>> \o MagSubFrom(a, b, i + 1, 0)

MagSub(a, b) == MagNorm(MagSubFrom(a, b, 1, 0))

RECURSIVE MagMulSmallFrom(_, _, _, _)
MagMulSmallFrom(a, d, i, carry) ==
    IF i > Len(a)
    THEN IF carry = 0 THEN <<>> ELSE <<carry>>
    ELSE LET p == a[i] * d + carry
         IN  <<p % Base>> \o MagMulSmallFrom(a, d, i + 1, p \div Base)

\* a * d for one limb d
MagMulSmall(a, d) == IF d = 0 THEN <<>> ELSE MagMulSmallFrom(a, d, 1, 0)

MagShlLimbs(a, n) == IF a = <<>> THEN a ELSE [i \in 1..n |-> 0] \o a

RECURSIVE MagMulFrom(_, _, _)
MagMulFrom(a, b, i) ==
    IF i > Len(b) THEN <<>>
    ELSE MagAdd(MagShlLimbs(MagMulSmall(a, b[i]), i - 1), MagMulFrom(a, b, i + 1))

MagMul(a, b) == MagMulFrom(a, b, 1)

\* a * 2^k
MagShl(a, k) == MagShlLimbs(MagMulSmall(a, 2^(k % LimbBits)), k \div LimbBits)

\* floor(a / 2^k)
MagShr(a, k) ==
    LET n == k \div LimbBits
        r == k % LimbBits
        d == IF n >= Len(a) THEN <<>> ELSE SubSeq(a, n + 1, Len(a))
    IN  MagNorm([i \in 1..Len(d) |->
                   (d[i] \div 2^r) + (Limb(d, i + 1) % 2^r) * 2^(LimbBits - r)])

RECURSIVE SmallBitLen(_)
SmallBitLen(n) == IF n = 0 THEN 0 ELSE 1 + SmallBitLen(n \div 2)

\* the number of significant bits of a
MagBitLen(a) ==
    IF a = <<>> THEN 0 ELSE LimbBits * (Len(a) - 1) + SmallBitLen(a[Len(a)])

\* the number of zero bits below the lowest set bit of a (a /= 0)
RECURSIVE SmallTrailingZeros(_)
SmallTrailingZeros(n) == IF n % 2 = 1 THEN 0 ELSE 1 + SmallTrailingZeros(n \div 2)

RECURSIVE MagTrailingZerosFrom(_, _)
MagTrailingZerosFrom(a, i) ==
    IF a[i] = 0 THEN LimbBits + MagTrailingZerosFrom(a, i + 1)
    ELSE SmallTrailingZeros(a[i])

MagTrailingZeros(a) == IF a = <<>> THEN 0 ELSE MagTrailingZerosFrom(a, 1)

\* the largest d with d * b <= r, one bit at a time from bit i down
RECURSIVE QuotDigit(_, _, _, _)
QuotDigit(r, b, d, i) ==
    IF i < 0 THEN d
    ELSE IF MagCmp(MagMulSmall(b, d + 2^i), r) <= 0
         THEN QuotDigit(r, b, d + 2^i, i - 1)
         ELSE QuotDigit(r, b, d, i - 1)

\* schoolbook long division, one limb of the dividend at a time from limb i down
RECURSIVE MagDivModFrom(_, _, _, _)
MagDivModFrom(a, b, i, r) ==
    IF i = 0 THEN [quot |-> <<>>, rem |-> r]
    ELSE LET r2 == MagNorm(<<a[i]>> \o r)
             d == QuotDigit(r2, b, 0, LimbBits - 1)
             rest == IF d = 0 THEN MagDivModFrom(a, b, i - 1, r2)
                     ELSE MagDivModFrom(a, b, i - 1, MagSub(r2, MagMulSmall(b, d)))
         IN  [quot |-> rest.quot \o <<d>>, rem |-> rest.rem]

\* floor(a / b) and a mod b, for b /= 0
MagDivMod(a, b) ==
    LET qr == MagDivModFrom(a, b, Len(a), <<>>)
    IN  [quot |-> MagNorm(qr.quot), rem |-> qr.rem]

RECURSIVE MagOfNat(_)
MagOfNat(n) == IF n = 0 THEN <<>> ELSE <<n % Base>> \o MagOfNat(n \div Base)

\* a^n by repeated multiplication
RECURSIVE MagPow(_, _)
MagPow(a, n) == IF n = 0 THEN <<1>> ELSE MagMul(a, MagPow(a, n - 1))

\* the value of a magnitude that fits a TLC integer
RECURSIVE MagToNatFrom(_, _)
MagToNatFrom(a, i) == IF i > Len(a) THEN 0 ELSE a[i] + Base * MagToNatFrom(a, i + 1)

MagToNat(a) == MagToNatFrom(a, 1)

(***************************************************************************)
(* Mathematical integers: [neg, mag], zero never negative.                 *)
(***************************************************************************)
MkInt(neg, mag) == [neg |-> neg /\ mag /= <<>>, mag |-> mag]

Int_(n) == IF n < 0 THEN MkInt(TRUE, MagOfNat(-n)) ELSE MkInt(FALSE, MagOfNat(n))

IntZero == MkInt(FALSE, <<>>)

IntNeg(a) == MkInt(~a.neg, a.mag)

IntAdd(a, b) ==
    IF a.neg = b.neg THEN MkInt(a.neg, MagAdd(a.mag, b.mag))
    ELSE IF MagCmp(a.mag, b.mag) >= 0 THEN MkInt(a.neg, MagSub(a.mag, b.mag))
    ELSE MkInt(b.neg, MagSub(b.mag, a.mag))

IntSub(a, b) == IntAdd(a, IntNeg(b))

IntMul(a, b) == MkInt(a.neg /= b.neg, MagMul(a.mag, b.mag))

\* -1, 0 or 1 as a is below, equal to or above b
IntCmp(a, b) ==
    IF a.neg /= b.neg THEN (IF a.neg THEN -1 ELSE 1)
    ELSE IF a.neg THEN MagCmp(b.mag, a.mag) ELSE MagCmp(a.mag, b.mag)

\* a^n for a natural number n given as a TLC integer
IntPow(a, n) == MkInt(a.neg /\ n % 2 = 1, MagPow(a.mag, n))

(***************************************************************************)
(* i64: the payload of Value::SmallInt and of Expression::Integer.         *)
(***************************************************************************)
I64_BITS == 64

I64_MAX == MkInt(FALSE, MagSub(MagShl(<<1>>, I64_BITS - 1), <<1>>))
I64_MIN == MkInt(TRUE, MagShl(<<1>>, I64_BITS - 1))
U32_MAX == MkInt(FALSE, MagSub(MagShl(<<1>>, 32), <<1>>))

InI64(x) == IntCmp(I64_MIN, x) <= 0 /\ IntCmp(x, I64_MAX) <= 0

Some(x) == [some |-> TRUE, value |-> x]
None == [some |-> FALSE, value |-> IntZero]

\* the result when it fits an i64, None when it overflows
Checked(x) == IF InI64(x) THEN Some(x) ELSE None

checked_add(a, b) == Checked(IntAdd(a, b))
checked_sub(a, b) == Checked(IntSub(a, b))
checked_mul(a, b) == Checked(IntMul(a, b))

\* acc * base^n by checked_mul, None at the first product that overflows
RECURSIVE CheckedPowFrom(_, _, _)
CheckedPowFrom(acc, base, n) ==
    IF n = 0 THEN Some(acc)
    ELSE LET product == checked_mul(acc, base)
         IN  IF product.some THEN CheckedPowFrom(product.value, base, n - 1) ELSE None

\* i64::checked_pow(self, exp: u32): square-and-multiply with checked_mul.  Every
\* intermediate product divides the result, so it is None exactly when the
\* result does not fit, which repeated multiplication decides as well.  A base
\* beyond 1 in magnitude overflows from exp = 64 on.
checked_pow(base, exp) ==
    IF MagCmp(base.mag, <<1>>) <= 0
    THEN Some(MkInt(base.neg /\ exp.mag /= <<>> /\ exp.mag[1] % 2 = 1,
                    IF exp.mag = <<>> THEN <<1>> ELSE base.mag))
    ELSE IF IntCmp(exp, Int_(I64_BITS)) >= 0 THEN None
    ELSE CheckedPowFrom(Int_(1), base, MagToNat(exp.mag))

\* a two's complement wrap into the i64 range
WrapI64(x) ==
    LET modulus == MagShl(<<1>>, I64_BITS)
        m == MagDivMod(x.mag, modulus).rem
        u == IF x.neg /\ m /= <<>> THEN MagSub(modulus, m) ELSE m
    IN  IF MagCmp(u, I64_MAX.mag) > 0 THEN MkInt(TRUE, MagSub(modulus, u))
        ELSE MkInt(FALSE, u)

\* a / b and a % b of i64 (truncating), for b /= 0 and (a, b) /= (MIN, -1)
TruncDiv(a, b) == MkInt(a.neg /= b.neg, MagDivMod(a.mag, b.mag).quot)
TruncRem(a, b) == MkInt(a.neg, MagDivMod(a.mag, b.mag).rem)

(***************************************************************************)
(* FBig (dashu_float, rounding mode Zero, base 2): significand * 2^exp,    *)
(* the significand held to REAL_PRECISION bits.  Kept in lowest terms      *)
(* (an odd significand, or zero), so that equal numbers are equal records. *)
(***************************************************************************)
REAL_PRECISION == 100

MkReal(neg, mag, exp) ==
    IF mag = <<>> THEN [neg |-> FALSE, mag |-> <<>>, exp |-> 0]
    ELSE LET tz == MagTrailingZeros(mag)
         IN  [neg |-> neg, mag |-> MagShr(mag, tz), exp |-> exp + tz]

\* the context's rounding: the bits below the top REAL_PRECISION are dropped
\* (mode::Zero rounds toward zero)
RoundToPrecision(neg, mag, exp) ==
    LET extra == MagBitLen(mag) - REAL_PRECISION
    IN  IF extra > 0 THEN MkReal(neg, MagShr(mag, extra), exp + extra)
        ELSE MkReal(neg, mag, exp)

\* the number itself, with every bit kept
ExactReal(x) == MkReal(x.neg, x.mag, 0)

RealZero == MkReal(FALSE, <<>>, 0)
RealOne == MkReal(FALSE, <<1>>, 0)

create_real(integer) == RoundToPrecision(integer.neg, integer.mag, 0)

RealNeg(a) == MkReal(~a.neg, a.mag, a.exp)

RealAdd(a, b) ==
    LET e == IF a.exp < b.exp THEN a.exp ELSE b.exp
        s == IntAdd(MkInt(a.neg, MagShl(a.mag, a.exp - e)),
                    MkInt(b.neg, MagShl(b.mag, b.exp - e)))
    IN  RoundToPrecision(s.neg, s.mag, e)

RealSub(a, b) == RealAdd(a, RealNeg(b))

RealMul(a, b) == RoundToPrecision(a.neg /= b.neg, MagMul(a.mag, b.mag), a.exp + b.exp)

\* a / b for b /= 0: the quotient's top REAL_PRECISION bits
RealQuotient(a, b) ==
    LET need == REAL_PRECISION + MagBitLen(b.mag) - MagBitLen(a.mag) + 1
        shift == IF need > 0 THEN need ELSE 0
        q == MagDivMod(MagShl(a.mag, shift), b.mag).quot
    IN  RoundToPrecision(a.neg /= b.neg, q, a.exp - b.exp - shift)

\* a^n for a natural number n given as a TLC integer
RealPowNat(a, n) ==
    RoundToPrecision(a.neg /\ n % 2 = 1, MagPow(a.mag, n), a.exp * n)

(***************************************************************************)
(* Expression (parser.rs) and Value, RuntimeError (value.rs).              *)
(***************************************************************************)
Integer(value) == [kind |-> "Integer", value |-> value]
Variable(name) == [kind |-> "Variable", name |-> name]
Negate(a) == [kind |-> "Negate", a |-> a]
Add(a, b) == [kind |-> "Add", a |-> a, b |-> b]
Subtract(a, b) == [kind |-> "Subtract", a |-> a, b |-> b]
Multiply(a, b) == [kind |-> "Multiply", a |-> a, b |-> b]
Divide(a, b) == [kind |-> "Divide", a |-> a, b |-> b]
Power(a, b) == [kind |-> "Power", a |-> a, b |-> b]
ApplyFunction(function, arguments) ==
    [kind |-> "ApplyFunction", function |-> function, arguments |-> arguments]

Function(name, parameter_names, body) ==
    [name |-> name, parameter_names |-> parameter_names, body |-> body]

SmallInt(i) == [tag |-> "SmallInt", int |-> i]
Real(r) == [tag |-> "Real", real |-> r]
FunctionValue(f) == [tag |-> "Function", function |-> f]

UnboundVariable(name) == [variant |-> "UnboundVariable", name |-> name]
InvalidType(found, operation) ==
    [variant |-> "InvalidType", found |-> found, operation |-> operation]
TypeMismatch(first, last, operation) ==
    [variant |-> "TypeMismatch", first |-> first, last |-> last, operation |-> operation]
DivisionByZero == [variant |-> "DivisionByZero"]
ParameterMismatch(expected, found) ==
    [variant |-> "ParameterMismatch", expected |-> expected, found |-> found]

\* Result<Value, RuntimeError>, and the two ways an evaluation ends without one:
\* a panic, which aborts the process, and a call of the library's exp/ln routines
\* (or a power too large to write out), whose digits are not modelled.
Ok(value) == [kind |-> "Ok", value |-> value]
Err(error) == [kind |-> "Err", error |-> error]
Panic(message) == [kind |-> "Panic", message |-> message]
Unmodelled(what) == [kind |-> "Unmodelled", what |-> what]

type_name(value) ==
    CASE value.tag = "SmallInt" -> "SmallInt"
      [] value.tag = "Real" -> "Decimal"
      [] value.tag = "Function" -> "Function"

(***************************************************************************)
(* The numeric tower (value.rs).                                           *)
(***************************************************************************)
safe_division(a, b) ==
    IF b = RealZero THEN Err(DivisionByZero) ELSE Ok(Real(RealQuotient(a, b)))

\* the largest exponent whose power the model writes out
MaxPowiExponent == 4

\* FBig::powi(exp): the power, rounded to the working precision; a negative
\* exponent takes the reciprocal, which has none for zero
powi(base, exp) ==
    IF base = RealZero \/ base = RealOne \/ base = RealNeg(RealOne)
    THEN IF exp.mag = <<>> THEN Ok(Real(RealOne))
         ELSE IF base = RealZero
              THEN (IF exp.neg THEN Panic("divide by zero") ELSE Ok(Real(RealZero)))
              ELSE Ok(Real(IF exp.mag[1] % 2 = 1 THEN base ELSE RealOne))
    ELSE IF IntCmp(MkInt(FALSE, exp.mag), Int_(MaxPowiExponent)) > 0
         THEN Unmodelled("powi")
    ELSE IF exp.neg
         THEN Ok(Real(RealQuotient(RealOne, RealPowNat(base, MagToNat(exp.mag)))))
         ELSE Ok(Real(RealPowNat(base, MagToNat(exp.mag))))

\* FBig::powf(exp), by the library's exp and ln
powf(base, exp) == Unmodelled("powf")

safe_power(base, exponent) ==
    CASE base.tag = "SmallInt" /\ exponent.tag = "SmallInt" ->
           IF ~base.int.neg /\ ~exponent.int.neg
           THEN LET pow == IF IntCmp(exponent.int, U32_MAX) > 0 THEN None
                           ELSE checked_pow(base.int, exponent.int)
                IN  IF pow.some THEN Ok(SmallInt(pow.value))
                    ELSE powi(create_real(base.int), exponent.int)
           ELSE powi(create_real(base.int), exponent.int)
      [] base.tag = "Real" /\ exponent.tag = "Real" -> powf(base.real, exponent.real)
      [] base.tag = "Real" /\ exponent.tag = "SmallInt" -> powi(base.real, exponent.int)
      [] base.tag = "SmallInt" /\ exponent.tag = "Real" ->
           powf(create_real(base.int), exponent.real)
      [] OTHER -> Err(TypeMismatch(type_name(base), type_name(exponent), "^"))

\* `-a` on an i64: the one value without a negation panics with overflow
\* checks on and wraps without them
NegateI64(a) ==
    IF a = I64_MIN
    THEN IF overflow_checks THEN Panic("attempt to negate with overflow")
         ELSE Ok(SmallInt(WrapI64(IntNeg(a))))
    ELSE Ok(SmallInt(IntNeg(a)))

EvaluateNegate(a) ==
    CASE a.tag = "SmallInt" -> NegateI64(a.int)
      [] a.tag = "Real" -> Ok(Real(RealNeg(a.real)))
      [] OTHER -> Err(InvalidType(type_name(a), "negate"))

EvaluateAdd(a, b) ==
    CASE a.tag = "SmallInt" /\ b.tag = "SmallInt" ->
           LET sum == checked_add(a.int, b.int)
           IN  IF sum.some THEN Ok(SmallInt(sum.value))
               ELSE Ok(Real(RealAdd(create_real(a.int), create_real(b.int))))
      [] a.tag = "Real" /\ b.tag = "Real" -> Ok(Real(RealAdd(a.real, b.real)))
      [] a.tag = "Real" /\ b.tag = "SmallInt" ->
           Ok(Real(RealAdd(a.real, create_real(b.int))))
      [] a.tag = "SmallInt" /\ b.tag = "Real" ->
           Ok(Real(RealAdd(create_real(a.int), b.real)))
      [] OTHER -> Err(TypeMismatch(type_name(a), type_name(b), "+"))

EvaluateSubtract(a, b) ==
    CASE a.tag = "SmallInt" /\ b.tag = "SmallInt" ->
           LET difference == checked_sub(a.int, b.int)
           IN  IF difference.some THEN Ok(SmallInt(difference.value))
               ELSE Ok(Real(RealSub(create_real(a.int), create_real(b.int))))
      [] a.tag = "Real" /\ b.tag = "Real" -> Ok(Real(RealSub(a.real, b.real)))
      [] a.tag = "Real" /\ b.tag = "SmallInt" ->
           Ok(Real(RealSub(a.real, create_real(b.int))))
      [] a.tag = "SmallInt" /\ b.tag = "Real" ->
           Ok(Real(RealSub(create_real(a.int), b.real)))
      [] OTHER -> Err(TypeMismatch(type_name(a), type_name(b), "-"))

EvaluateMultiply(a, b) ==
    CASE a.tag = "SmallInt" /\ b.tag = "SmallInt" ->
           LET product == checked_mul(a.int, b.int)
           IN  IF product.some THEN Ok(SmallInt(product.value))
               ELSE Ok(Real(RealMul(create_real(a.int), create_real(b.int))))
      [] a.tag = "Real" /\ b.tag = "Real" -> Ok(Real(RealMul(a.real, b.real)))
      [] a.tag = "Real" /\ b.tag = "SmallInt" ->
           Ok(Real(RealMul(a.real, create_real(b.int))))
      [] a.tag = "SmallInt" /\ b.tag = "Real" ->
           Ok(Real(RealMul(create_real(a.int), b.real)))
      [] OTHER -> Err(TypeMismatch(type_name(a), type_name(b), "*"))

\* `b != 0 && a % b == 0`, then `a / b`: the remainder of MIN by -1 overflows,
\* and that panics in every build
DivideI64(a, b) ==
    IF b = IntZero THEN safe_division(create_real(a), create_real(b))
    ELSE IF a = I64_MIN /\ b = Int_(-1)
         THEN Panic("attempt to calculate the remainder with overflow")
    ELSE IF TruncRem(a, b) = IntZero THEN Ok(SmallInt(TruncDiv(a, b)))
    ELSE safe_division(create_real(a), create_real(b))

\* FBig / FBig: the library's division, which panics on a zero divisor
RealDivide(a, b) ==
    IF b = RealZero THEN Panic("divide by zero") ELSE Ok(Real(RealQuotient(a, b)))

EvaluateDivide(a, b) ==
    CASE a.tag = "SmallInt" /\ b.tag = "SmallInt" -> DivideI64(a.int, b.int)
      [] a.tag = "Real" /\ b.tag = "Real" -> RealDivide(a.real, b.real)
      [] a.tag = "Real" /\ b.tag = "SmallInt" -> safe_division(a.real, create_real(b.int))
      [] a.tag = "SmallInt" /\ b.tag = "Real" -> safe_division(create_real(a.int), b.real)
      [] OTHER -> Err(TypeMismatch(type_name(a), type_name(b), "/"))

(***************************************************************************)
(* Value::evaluate (value.rs).  `variables` is a shared borrow of a map; an*)
(* evaluation is modelled together with what that map holds when it        *)
(* returns, so that "the caller's map is left alone" is a statement about  *)
(* the model and not a convention of it.                                   *)
(***************************************************************************)
Returned(result, map) == [result |-> result, variables |-> map]

\* BTreeMap::insert
Insert(map, key, value) ==
    [k \in DOMAIN map \cup {key} |-> IF k = key THEN value ELSE map[k]]

\* variant: lexical scoping: the overlay starts from the definition-site
\* environment, the one built at load time
CallOverlayAtDefinition(caller_variables) == loaded

\* `variables.clone()`: the map the call's bindings go into starts as a copy
\* of the caller's
CallOverlay(caller_variables) == caller_variables

\* variant: no clone: the bindings are inserted into the caller's own map
AfterCallShared(caller_variables, overlay_variables) == overlay_variables

\* the overlay is a local of the call and is dropped with it: the caller's map
\* is the one it was, whatever the overlay came to hold
AfterCall(caller_variables, overlay_variables) == caller_variables

\* variant: only a call with too few arguments is refused
ParameterCountTooFew(function, arguments) ==
    Len(function.parameter_names) > Len(arguments)

\* `function.parameter_names.len() != arguments.len()`
ParameterCountDiffers(function, arguments) ==
    Len(function.parameter_names) /= Len(arguments)

\* variant: an argument is evaluated in the overlay under construction
ArgumentVariablesOfOverlay(caller_variables, new_variables) == new_variables

\* `Value::evaluate(variables, argument)`: the map an argument is evaluated
\* against is the caller's, not new_variables
ArgumentVariables(caller_variables, new_variables) == caller_variables

BinaryOperation(kind, a, b) ==
    CASE kind = "Add" -> EvaluateAdd(a, b)
      [] kind = "Subtract" -> EvaluateSubtract(a, b)
      [] kind = "Multiply" -> EvaluateMultiply(a, b)
      [] kind = "Divide" -> EvaluateDivide(a, b)
      [] kind = "Power" -> safe_power(a, b)

\* the deepest nesting of calls the native stack holds
MaxCallDepth == 3

RECURSIVE Evaluate(_, _, _)
RECURSIVE EvaluateArguments(_, _, _, _, _, _)

\* the loop over zip(parameter_names, arguments), from pair i on: each argument
\* is evaluated against the caller's map and inserted into the overlay
EvaluateArguments(caller_variables, new_variables, parameter_names, arguments, i, depth) ==
    IF i > Len(parameter_names) \/ i > Len(arguments)
    THEN [failed |-> FALSE, result |-> Ok(SmallInt(IntZero)),
          variables |-> caller_variables, new_variables |-> new_variables]
    ELSE LET argument == Evaluate(ArgumentVariables(caller_variables, new_variables),
                                  arguments[i], depth)
         IN  IF argument.result.kind /= "Ok"
             THEN [failed |-> TRUE, result |-> argument.result,
                   variables |-> argument.variables, new_variables |-> new_variables]
             ELSE EvaluateArguments(
                      argument.variables,
                      Insert(new_variables, parameter_names[i], argument.result.value),
                      parameter_names, arguments, i + 1, depth)

Evaluate(map, e, depth) ==
    CASE e.kind = "Integer" -> Returned(Ok(SmallInt(e.value)), map)
      [] e.kind = "Variable" ->
           IF e.name \in DOMAIN map THEN Returned(Ok(map[e.name]), map)
           ELSE Returned(Err(UnboundVariable(e.name)), map)
      [] e.kind = "Negate" ->
           LET a == Evaluate(map, e.a, depth)
           IN  IF a.result.kind /= "Ok" THEN a
               ELSE Returned(EvaluateNegate(a.result.value), a.variables)
      [] e.kind \in {"Add", "Subtract", "Multiply", "Divide", "Power"} ->
           LET a == Evaluate(map, e.a, depth)
           IN  IF a.result.kind /= "Ok" THEN a
               ELSE LET b == Evaluate(a.variables, e.b, depth)
                    IN  IF b.result.kind /= "Ok" THEN b
                        ELSE Returned(
                                 BinaryOperation(e.kind, a.result.value, b.result.value),
                                 b.variables)
      [] e.kind = "ApplyFunction" ->
           LET callee == Evaluate(map, e.function, depth)
           IN  IF callee.result.kind /= "Ok" THEN callee
               ELSE IF callee.result.value.tag /= "Function"
                    THEN Returned(Err(InvalidType("function", "apply")), callee.variables)
               ELSE LET function == callee.result.value.function
                    IN  IF ParameterCountDiffers(function, e.arguments)
                        THEN Returned(
                                 Err(ParameterMismatch(Len(function.parameter_names),
                                                       Len(e.arguments))),
                                 callee.variables)
                        ELSE LET bound == EvaluateArguments(
                                              callee.variables,
                                              CallOverlay(callee.variables),
                                              function.parameter_names,
                                              e.arguments, 1, depth)
                             IN  IF bound.failed
                                 THEN Returned(bound.result, bound.variables)
                                 ELSE IF depth = 0
                                      THEN Returned(Panic("stack overflow"),
                                                    bound.variables)
                                 ELSE LET body == Evaluate(bound.new_variables,
                                                           function.body, depth - 1)
                                      IN  Returned(body.result,
                                                   AfterCall(bound.variables,
                                                             body.variables))

\* a call of Value::evaluate from the top
Value_evaluate(map, e) == Evaluate(map, e, MaxCallDepth)

(***************************************************************************)
(* parse_expression (parser.rs).  The text is carried as its lexemes: a    *)
(* run of digits (digit1), a run of letters (alpha1) or a punctuation mark *)
(* (tag, char); with_whitespace drops the blanks around each.  A parser    *)
(* returns what is left of the input and the tree, or an error.            *)
(***************************************************************************)
Digits(digits) == [kind |-> "digit1", text |-> "", digits |-> digits]
Alpha(text) == [kind |-> "alpha1", text |-> text, digits |-> <<>>]
Tag(text) == [kind |-> "tag", text |-> text, digits |-> <<>>]

ParseOk(rest, e) == [ok |-> TRUE, rest |-> rest, expression |-> e]
ParseError == [ok |-> FALSE]

StartsWith(in, text) ==
    in /= <<>> /\ Head(in).kind = "tag" /\ Head(in).text = text

\* str::parse::<i64>() on a run of digits, from the value so far: every step is
\* a checked multiplication by ten and a checked addition of the digit
RECURSIVE ParseI64From(_, _)
ParseI64From(digits, value) ==
    IF digits = <<>> THEN Some(value)
    ELSE LET tens == checked_mul(value, Int_(10))
             next == IF tens.some THEN checked_add(tens.value, Int_(Head(digits)))
                     ELSE None
         IN  IF next.some THEN ParseI64From(Tail(digits), next.value) ELSE None

ParseI64(digits) == ParseI64From(digits, IntZero)

\* `let (input, first) = parser.parse(input)?; ..`: a result is computed once
\* and named; The({e(first) : first \in {parser(in)}}) is e of that result
The(results) == CHOOSE result \in results : TRUE

\* first.or(second), first.or_else(|_| second): the second parser runs, on the
\* same input, when the first returns an error
Or(first, second) == The({IF r.ok THEN r ELSE second : r \in {first}})

Binary(constructor, lhs, rhs) == [kind |-> constructor, a |-> lhs, b |-> rhs]

\* variant: the fold nests to the right
FoldStepSwapped(operator_constructor, lhs, rhs) == Binary(operator_constructor, rhs, lhs)

\* the fold's `|lhs, rhs| operator_constructor(lhs, rhs)`
FoldStep(operator_constructor, lhs, rhs) == Binary(operator_constructor, lhs, rhs)

RECURSIVE parse_expression(_)
RECURSIVE bracketed_expression(_)
RECURSIVE negative_expression(_)
RECURSIVE atomic_expression(_)
RECURSIVE SeparatedListFrom(_, _)
RECURSIVE separated_list0(_)
RECURSIVE ApplySuffix(_)
RECURSIVE possibly_apply_parser(_)
RECURSIVE possibly_power_parser(_)
RECURSIVE possibly_divide_parser(_)
RECURSIVE possibly_multiply_parser(_)
RECURSIVE possibly_subtract_parser(_)
RECURSIVE possibly_add_parser(_)
RECURSIVE ParameterParser(_, _)
RECURSIVE OperatorThenOperand(_, _, _)
RECURSIVE FoldMany(_, _, _, _, _)
RECURSIVE FoldMany1(_, _, _, _)
RECURSIVE left_associative_operator_parser(_, _, _, _)

\* map_res(digit1, parse::<i64>): a run of digits that is no i64 is an error
integer_parser(in) ==
    IF in /= <<>> /\ Head(in).kind = "digit1"
    THEN The({IF integer.some THEN ParseOk(Tail(in), Integer(integer.value))
              ELSE ParseError : integer \in {ParseI64(Head(in).digits)}})
    ELSE ParseError

variable_parser(in) ==
    IF in /= <<>> /\ Head(in).kind = "alpha1"
    THEN ParseOk(Tail(in), Variable(Head(in).text))
    ELSE ParseError

\* delimited(tag("("), parse_expression, tag(")"))
bracketed_expression(in) ==
    IF StartsWith(in, "(")
    THEN The({IF inner.ok /\ StartsWith(inner.rest, ")")
              THEN ParseOk(Tail(inner.rest), inner.expression)
              ELSE ParseError : inner \in {parse_expression(Tail(in))}})
    ELSE ParseError

\* variant: the operand of `-` is the next atom, with its call suffix
negative_atom(in) ==
    IF StartsWith(in, "-")
    THEN The({IF operand.ok THEN ParseOk(operand.rest, Negate(operand.expression))
              ELSE ParseError : operand \in {possibly_apply_parser(Tail(in))}})
    ELSE ParseError

\* char('-').and(parse_expression)
negative_expression(in) ==
    IF StartsWith(in, "-")
    THEN The({IF operand.ok THEN ParseOk(operand.rest, Negate(operand.expression))
              ELSE ParseError : operand \in {parse_expression(Tail(in))}})
    ELSE ParseError

\* integer_parser.or(variable_parser).or(bracketed_expression).or(negative_expression)
atomic_expression(in) ==
    Or(Or(Or(integer_parser(in), variable_parser(in)), bracketed_expression(in)),
       negative_expression(in))

\* separated_list0's loop once an element is in: a separator with no element
\* after it is left unread
SeparatedListFrom(in, arguments) ==
    IF StartsWith(in, ",")
    THEN The({IF element.ok
              THEN SeparatedListFrom(element.rest, Append(arguments, element.expression))
              ELSE [rest |-> in, arguments |-> arguments] :
                  element \in {parse_expression(Tail(in))}})
    ELSE [rest |-> in, arguments |-> arguments]

\* separated_list0(char(','), parse_expression): never an error
separated_list0(in) ==
    The({IF element.ok THEN SeparatedListFrom(element.rest, <<element.expression>>)
         ELSE [rest |-> in, arguments |-> <<>>] : element \in {parse_expression(in)}})

\* `(`, the arguments and `)` after the atom `first`; an error leaves the atom
ApplySuffix(first) ==
    IF StartsWith(first.rest, "(")
    THEN The({IF StartsWith(list.rest, ")")
              THEN ParseOk(Tail(list.rest),
                           ApplyFunction(first.expression, list.arguments))
              ELSE first : list \in {separated_list0(Tail(first.rest))}})
    ELSE first

\* the suffix `( arguments )` is tried once; when it fails the atom stands alone
possibly_apply_parser(in) ==
    The({IF first.ok THEN ApplySuffix(first) ELSE ParseError :
            first \in {atomic_expression(in)}})

\* the parameter_parser of a level: the parser one step tighter
ParameterParser(level, in) ==
    CASE level = 1 -> possibly_apply_parser(in)
      [] level = 2 -> possibly_power_parser(in)
      [] level = 3 -> possibly_divide_parser(in)
      [] level = 4 -> possibly_multiply_parser(in)
      [] level = 5 -> possibly_subtract_parser(in)

\* the closure folded over: the operator, then an operand
OperatorThenOperand(operator, level, in) ==
    IF StartsWith(in, operator) THEN ParameterParser(level, Tail(in)) ELSE ParseError

\* fold_many1 after its first success: repeat until the closure fails
FoldMany(operator, level, operator_constructor, in, lhs) ==
    The({IF next.ok
         THEN FoldMany(operator, level, operator_constructor, next.rest,
                       FoldStep(operator_constructor, lhs, next.expression))
         ELSE ParseOk(in, lhs) : next \in {OperatorThenOperand(operator, level, in)}})

\* fold_many1 from `first`: an error when not even one operator and operand follow
FoldMany1(operator, level, operator_constructor, first) ==
    The({IF next.ok
         THEN FoldMany(operator, level, operator_constructor, next.rest,
                       FoldStep(operator_constructor, first.expression, next.expression))
         ELSE ParseError : next \in {OperatorThenOperand(operator, level, first.rest)}})

\* one operand, then fold_many1 over (operator, operand): an error when the
\* operand fails, and when not even one operator and operand follow.  `first`
\* is parameter_parser.parse(input): a parser keeps no state, so the result it
\* gives on one input is computed once, for this call and for the caller's
\* or_else, which runs the same parser on the same input.
left_associative_operator_parser(operator, level, operator_constructor, first) ==
    IF first.ok THEN FoldMany1(operator, level, operator_constructor, first)
    ELSE ParseError

possibly_power_parser(in) ==
    The({Or(left_associative_operator_parser("^", 1, "Power", first), first) :
            first \in {ParameterParser(1, in)}})

possibly_divide_parser(in) ==
    The({Or(left_associative_operator_parser("/", 2, "Divide", first), first) :
            first \in {ParameterParser(2, in)}})

possibly_multiply_parser(in) ==
    The({Or(left_associative_operator_parser("*", 3, "Multiply", first), first) :
            first \in {ParameterParser(3, in)}})

possibly_subtract_parser(in) ==
    The({Or(left_associative_operator_parser("-", 4, "Subtract", first), first) :
            first \in {ParameterParser(4, in)}})

possibly_add_parser(in) ==
    The({Or(left_associative_operator_parser("+", 5, "Add", first), first) :
            first \in {ParameterParser(5, in)}})

parse_expression(in) == possibly_add_parser(in)

(***************************************************************************)
(* Requests.  No driver is part of the sources: a request is one call of   *)
(* parse_expression or of Value::evaluate.                                 *)
(***************************************************************************)
NotParsed == [ok |-> FALSE, pending |-> TRUE]
NotEvaluated == [kind |-> "None"]
NoVariables == [k \in {} |-> SmallInt(IntZero)]

\* f(x) = x + y, g(y) = f(1), h(a, b) = a - b, d(p, p) = p, loop(x) = loop(x)
Definitions ==
    [f |-> FunctionValue(Function("f", <<"x">>, Add(Variable("x"), Variable("y")))),
     g |-> FunctionValue(Function("g", <<"y">>,
               ApplyFunction(Variable("f"), <<Integer(Int_(1))>>))),
     h |-> FunctionValue(Function("h", <<"a", "b">>,
               Subtract(Variable("a"), Variable("b")))),
     d |-> FunctionValue(Function("d", <<"p", "p">>, Variable("p"))),
     loop |-> FunctionValue(Function("loop", <<"x">>,
               ApplyFunction(Variable("loop"), <<Variable("x")>>)))]

(***************************************************************************)
(* Arithmetic requests: one operator applied to two operands (Negate: to   *)
(* one).  Every operand is a tree over non-negative literals, as the       *)
(* parser builds them, so every operand value is one an evaluation reaches.*)
(***************************************************************************)
Lit(n) == Integer(Int_(n))
LitMax == Integer(I64_MAX)
U32Literal == Integer(U32_MAX)

\* 2^62 + 1 and 3037000500: the squares are beyond an i64, the first with more
\* than REAL_PRECISION significant bits and the second with fewer
LitWide == Integer(MkInt(FALSE, MagAdd(MagShl(<<1>>, I64_BITS - 2), <<1>>)))
LitRoot == Integer(MkInt(FALSE, MagMul(MagOfNat(30370005), MagOfNat(100))))

\* the largest integer literal of the small operands
MaxLiteral == 3

SmallIntOperands ==
    {Lit(n) : n \in 0..MaxLiteral}
    \cup {Subtract(Lit(0), Lit(n)) : n \in 1..MaxLiteral}
    \cup {LitMax, LitWide, LitRoot,
          Subtract(Lit(0), LitMax),
          Subtract(Subtract(Lit(0), LitMax), Lit(1)),
          Add(Lit(1), U32Literal)}

RealOperands ==
    {Add(LitMax, Lit(1)),
     Subtract(Add(LitMax, Lit(1)), Add(LitMax, Lit(1))),
     Divide(Lit(1), Lit(3)),
     Subtract(Subtract(Lit(0), LitMax), Lit(2))}

OtherOperands == {Variable("f"), Variable("y")}

Operands == SmallIntOperands \cup RealOperands \cup OtherOperands

BinaryKinds == {"Add", "Subtract", "Multiply", "Divide", "Power"}

ArithmeticRequests ==
    {[kind |-> k, a |-> a, b |-> b] : k \in BinaryKinds, a \in Operands, b \in Operands}
    \cup {Negate(a) : a \in Operands}

InitArithmetic ==
    /\ input = <<>>
    /\ parsed = NotParsed
    /\ loaded = Definitions
    /\ variables = loaded
    /\ expression \in ArithmeticRequests
    /\ outcome = NotEvaluated
    /\ overflow_checks \in BOOLEAN
    /\ pc = "evaluate"

\* Value::evaluate(&variables, &expression)
EvaluateRequest ==
    /\ pc = "evaluate"
    /\ LET r == Value_evaluate(variables, expression)
       IN  /\ outcome' = r.result
           /\ variables' = r.variables
    /\ pc' = "done"
    /\ UNCHANGED <<input, parsed, loaded, expression, overflow_checks>>

NextArithmetic == EvaluateRequest

SpecArithmetic == InitArithmetic /\ [][NextArithmetic]_vars

(***************************************************************************)
(* Call requests: the load-time definitions, with or without a binding of  *)
(* y at the top, and one request after another against the same map.       *)
(***************************************************************************)
Call(name, arguments) == ApplyFunction(Variable(name), arguments)

\* the values the top-level environment may bind y, or a, to
TopBindings == {10, 20}

Environments ==
    {Definitions}
    \cup {Insert(Definitions, name, SmallInt(Int_(n))) : name \in {"y", "a"}, n \in TopBindings}

\* the largest number of arguments of a call
MaxArguments == 3

\* arguments: a literal, a name no environment binds at the top (x is the
\* parameter of f) and a failing division
Arguments == {Lit(1), Variable("x"), Divide(Lit(1), Lit(0))}

ArgumentLists(longest) == UNION {[1..n -> Arguments] : n \in 0..longest}

CallRequests ==
    {Call("h", arguments) : arguments \in ArgumentLists(MaxArguments)}
    \cup {Call("f", arguments) : arguments \in ArgumentLists(2)}
    \cup {Call(name, <<Lit(n)>>) : name \in {"f", "g", "loop"}, n \in 0..MaxLiteral}
    \cup {Call("d", <<Lit(m), Lit(n)>>) : m, n \in 0..MaxLiteral}
    \cup {Call("q", <<>>), ApplyFunction(Lit(1), <<Lit(2)>>), Variable("y"),
          Call("h", <<Call("f", <<Lit(1)>>), Variable("x")>>),
          Call("h", <<Call("h", <<Lit(1)>>), Lit(2)>>),
          Call("h", <<Lit(1), Variable("a")>>)}
    \cup {[kind |-> k, a |-> Call(name, <<Lit(n)>>), b |-> Variable(v)] :
              k \in {"Add", "Subtract"}, name \in {"f", "g"},
              n \in 1..2, v \in {"x", "y"}}
    \cup {Add(Call("h", <<Lit(3), Lit(n)>>), Variable(v)) :
              n \in 1..2, v \in {"a", "b"}}

InitCalls ==
    /\ input = <<>>
    /\ parsed = NotParsed
    /\ loaded \in Environments
    /\ variables = loaded
    /\ expression \in CallRequests
    /\ outcome = NotEvaluated
    /\ overflow_checks \in BOOLEAN
    /\ pc = "evaluate"

\* the next request, against the map as the last one left it
NextCallRequest ==
    /\ pc = "done"
    /\ outcome.kind /= "Panic"
    /\ expression' \in CallRequests
    /\ outcome' = NotEvaluated
    /\ pc' = "evaluate"
    /\ UNCHANGED <<input, parsed, variables, loaded, overflow_checks>>

NextCalls == EvaluateRequest \/ NextCallRequest

SpecCalls == InitCalls /\ [][NextCalls]_vars

(***************************************************************************)
(* Parse requests: a text is parsed and the tree parse_expression returns  *)
(* is evaluated.                                                           *)
(***************************************************************************)
NoExpression == [kind |-> "None"]

OperatorTags == {"+", "-", "*", "/", "^"}

\* 9223372036854775808, one more than the largest i64
TooLarge == Digits(<<9, 2, 2, 3, 3, 7, 2, 0, 3, 6, 8, 5, 4, 7, 7, 5, 8, 0, 8>>)

Atoms == {Digits(<<2>>), Digits(<<3>>), Alpha("x")}
SignedAtoms == {Digits(<<1>>), Digits(<<2>>)}
SignedOperators == {"+", "-", "^"}

MaxOperands == 3

\* n atoms joined by n - 1 binary operators
RECURSIVE Chains(_, _, _)
Chains(atoms, operators, n) ==
    IF n = 1 THEN {<<a>> : a \in atoms}
    ELSE {c \o <<Tag(o), a>> :
              c \in Chains(atoms, operators, n - 1), o \in operators, a \in atoms}

\* the chain with a `-` put before each atom of `signed`, last atom first
RECURSIVE WithMinus(_, _, _)
WithMinus(chain, signed, n) ==
    IF n = 0 THEN chain
    ELSE LET before == WithMinus(SubSeq(chain, 1, 2 * n - 2), signed, n - 1)
             after == SubSeq(chain, 2 * n - 1, Len(chain))
         IN  IF n \in signed THEN before \o <<Tag("-")>> \o after ELSE before \o after

\* chains of literals an i64 holds and of names, and short chains with a
\* literal it does not hold
FlatInputs ==
    UNION {Chains(Atoms, OperatorTags, n) : n \in 1..MaxOperands}
    \cup Chains({Digits(<<2>>), TooLarge}, OperatorTags, 1)
    \cup Chains({Digits(<<2>>), TooLarge}, OperatorTags, 2)

\* one or two atoms of a chain carry a unary minus
SignedInputs ==
    UNION {{WithMinus(c, {i, j}, n) :
                c \in Chains(SignedAtoms, SignedOperators, n), i \in 1..n, j \in 1..n}
           : n \in 1..MaxOperands}

OnePlusTwoTimesThree ==
    <<Digits(<<1>>), Tag("+"), Digits(<<2>>), Tag("*"), Digits(<<3>>)>>
TwoPowerThreePowerTwo ==
    <<Digits(<<2>>), Tag("^"), Digits(<<3>>), Tag("^"), Digits(<<2>>)>>
MinusOnePlusTwo == <<Tag("-"), Digits(<<1>>), Tag("+"), Digits(<<2>>)>>

\* (1 + 2) * 3, 2 ^ (3 ^ 2), (-1) + 2, h(3, 1), h(-1, 2), -f(1), f(1, ), f(-1,
\* 1 +, the empty text, 12 x
ListedInputs ==
    {OnePlusTwoTimesThree,
     <<Tag("("), Digits(<<1>>), Tag("+"), Digits(<<2>>), Tag(")"), Tag("*"), Digits(<<3>>)>>,
     <<Digits(<<2>>), Tag("^"), Tag("("), Digits(<<3>>), Tag("^"), Digits(<<2>>), Tag(")")>>,
     <<Tag("("), Tag("-"), Digits(<<1>>), Tag(")"), Tag("+"), Digits(<<2>>)>>,
     <<Alpha("h"), Tag("("), Digits(<<3>>), Tag(","), Digits(<<1>>), Tag(")")>>,
     <<Alpha("h"), Tag("("), Tag("-"), Digits(<<1>>), Tag(","), Digits(<<2>>), Tag(")")>>,
     <<Tag("-"), Alpha("f"), Tag("("), Digits(<<1>>), Tag(")")>>,
     <<Alpha("f"), Tag("("), Digits(<<1>>), Tag(","), Tag(")")>>,
     <<Alpha("f"), Tag("("), Tag("-"), Digits(<<1>>)>>,
     <<Digits(<<1>>), Tag("+")>>,
     <<>>,
     <<Digits(<<1, 2>>), Alpha("x")>>}

Inputs == FlatInputs \cup SignedInputs \cup ListedInputs

InitParse ==
    /\ input \in Inputs
    /\ parsed = NotParsed
    /\ loaded = Definitions
    /\ variables = loaded
    /\ expression = NoExpression
    /\ outcome = NotEvaluated
    /\ overflow_checks \in BOOLEAN
    /\ pc = "parse"

\* parse_expression(input): the tree of an Ok goes on to be evaluated
ParseRequest ==
    /\ pc = "parse"
    /\ parsed' = parse_expression(input)
    /\ IF parsed'.ok
       THEN expression' = parsed'.expression /\ pc' = "evaluate"
       ELSE expression' = expression /\ pc' = "done"
    /\ UNCHANGED <<input, variables, loaded, outcome, overflow_checks>>

NextParse == ParseRequest \/ EvaluateRequest

SpecParse == InitParse /\ [][NextParse]_vars

(***************************************************************************)
(* The numeric claims, over SpecArithmetic.                                *)
(***************************************************************************)
\* what the operands of the request evaluate to
OperandA == Value_evaluate(loaded, expression.a).result
OperandB == Value_evaluate(loaded, expression.b).result

IsSmallInt(result) == result.kind = "Ok" /\ result.value.tag = "SmallInt"
IsReal(result) == result.kind = "Ok" /\ result.value.tag = "Real"
IsFunction(result) == result.kind = "Ok" /\ result.value.tag = "Function"

\* the number a SmallInt or Real value stands for
NumberOf(value) == IF value.tag = "SmallInt" THEN ExactReal(value.int) ELSE value.real

\* the mathematical result of + - * on two integers
ExactArithmetic(kind, a, b) ==
    CASE kind = "Add" -> IntAdd(a, b)
      [] kind = "Subtract" -> IntSub(a, b)
      [] kind = "Multiply" -> IntMul(a, b)

\* C3: Add, Subtract and Multiply of two SmallInts return SmallInt of the exact
\* result when it fits an i64, and otherwise a Real equal to the exact result,
\* with no rounding and no wrap-around.
C3_ExactOrPromotedExactly ==
    (/\ pc = "done"
     /\ expression.kind \in {"Add", "Subtract", "Multiply"}
     /\ IsSmallInt(OperandA) /\ IsSmallInt(OperandB))
    => LET exact == ExactArithmetic(expression.kind,
                                    OperandA.value.int, OperandB.value.int)
       IN  outcome = IF InI64(exact) THEN Ok(SmallInt(exact))
                     ELSE Ok(Real(ExactReal(exact)))

\* C4: Divide of two SmallInts never aborts the process and returns
\* DivisionByZero for a zero divisor, SmallInt(a / b) when the quotient is
\* exact, and a Real equal to the decimal quotient otherwise.
C4_DivideNeverAborts ==
    (/\ pc = "done"
     /\ expression.kind = "Divide"
     /\ IsSmallInt(OperandA) /\ IsSmallInt(OperandB))
    => LET a == OperandA.value.int
           b == OperandB.value.int
       IN  /\ outcome.kind /= "Panic"
           /\ outcome =
                IF b = IntZero THEN Err(DivisionByZero)
                ELSE IF MagDivMod(a.mag, b.mag).rem = <<>>
                     THEN Ok(SmallInt(TruncDiv(a, b)))
                     ELSE Ok(Real(RealQuotient(ExactReal(a), ExactReal(b))))

\* C5: every Divide with at least one Real operand checks the divisor: a divisor
\* that is numerically zero gives the error DivisionByZero, and the decimal
\* division runs only with a non-zero divisor.
C5_RealDivideChecksZero ==
    (/\ pc = "done"
     /\ expression.kind = "Divide"
     /\ IsSmallInt(OperandA) \/ IsReal(OperandA)
     /\ IsSmallInt(OperandB) \/ IsReal(OperandB)
     /\ IsReal(OperandA) \/ IsReal(OperandB))
    => IF NumberOf(OperandB.value) = RealZero
       THEN outcome = Err(DivisionByZero)
       ELSE IsReal(outcome)

\* C8: Power of two SmallInts with exponent >= 0, the base of either sign,
\* returns SmallInt(base^exponent) whenever that fits an i64, and a Real only
\* when the checked exponentiation overflows.
C8_PowerStaysSmallInt ==
    (/\ pc = "done"
     /\ expression.kind = "Power"
     /\ IsSmallInt(OperandA) /\ IsSmallInt(OperandB)
     /\ ~OperandB.value.int.neg)
    => LET exact == checked_pow(OperandA.value.int, OperandB.value.int)
       IN  IF exact.some THEN outcome = Ok(SmallInt(exact.value))
           ELSE IsReal(outcome) \/ outcome.kind = "Unmodelled"

\* C9: Negate of SmallInt(a) returns the arithmetic negation of a for every a,
\* the minimum included, without wrap-around and without aborting; Negate of a
\* Real returns its negation; Negate of a Function fails InvalidType with
\* operation "negate".
C9_NegateIsNegation ==
    (pc = "done" /\ expression.kind = "Negate")
    => LET a == Value_evaluate(loaded, expression.a).result
       IN  /\ IsSmallInt(a) =>
                /\ outcome.kind = "Ok"
                /\ outcome.value.tag \in {"SmallInt", "Real"}
                /\ NumberOf(outcome.value) = ExactReal(IntNeg(a.value.int))
           /\ IsReal(a) => outcome = Ok(Real(RealNeg(a.value.real)))
           /\ IsFunction(a) => outcome = Err(InvalidType("Function", "negate"))

(***************************************************************************)
(* The call claims, over SpecCalls.                                        *)
(***************************************************************************)
\* C6: a function body resolves a free name against the environment of the call
\* site: f(x) = x + y returns n + y for the y bound where f(n) is called, fails
\* UnboundVariable("y") where none is bound, and called from the body of
\* g(y) = f(1) sees g's parameter.
C6_DynamicScoping ==
    pc = "done" =>
        \A n \in 0..MaxLiteral :
            /\ expression = Call("f", <<Lit(n)>>) =>
                 outcome = IF "y" \in DOMAIN loaded
                           THEN EvaluateAdd(SmallInt(Int_(n)), loaded["y"])
                           ELSE Err(UnboundVariable("y"))
            /\ expression = Call("g", <<Lit(n)>>) =>
                 outcome = Ok(SmallInt(Int_(1 + n)))

\* two call sites that bind y differently: the top level (y = 10) and the body
\* of g called with 2
C6_Witness ==
    /\ pc = "done"
    /\ "y" \in DOMAIN loaded /\ loaded["y"] = SmallInt(Int_(10))
    /\ expression = Call("g", <<Lit(2)>>)
    /\ outcome = Ok(SmallInt(Int_(3)))

\* C7: applying a Function of n parameters to m arguments, m /= n, fails
\* ParameterMismatch{expected: n, found: m} whatever the arguments are, failing
\* ones included; with m = n this application raises no ParameterMismatch (one
\* can only come out of an argument).
C7_ParameterMismatch ==
    (/\ pc = "done"
     /\ expression.kind = "ApplyFunction"
     /\ IsFunction(Value_evaluate(loaded, expression.function).result))
    => LET function == Value_evaluate(loaded, expression.function).result.value.function
           n == Len(function.parameter_names)
           m == Len(expression.arguments)
           mismatch == outcome.kind = "Err" /\ outcome.error.variant = "ParameterMismatch"
       IN  IF m /= n THEN outcome = Err(ParameterMismatch(n, m))
           ELSE mismatch =>
                  \E i \in 1..m :
                      Value_evaluate(loaded, expression.arguments[i]).result = outcome

\* h(a, b) called with the one argument 1/0, and with three
C7_Witness ==
    /\ pc = "done"
    /\ \/ /\ expression = Call("h", <<Divide(Lit(1), Lit(0))>>)
          /\ outcome = Err(ParameterMismatch(2, 1))
       \/ /\ expression = Call("h", <<Lit(1), Lit(1), Lit(1)>>)
          /\ outcome = Err(ParameterMismatch(2, 3))

\* C10: Value::evaluate never changes the environment it is given: whatever it
\* returns, the map holds the bindings it held before, so a parameter bound for
\* a call is seen neither by a sibling subexpression evaluated after the call
\* nor by the next request.
C10_EnvironmentUnchanged ==
    /\ variables = loaded
    /\ (/\ pc = "done"
        /\ expression.kind \in {"Add", "Subtract"}
        /\ expression.a.kind = "ApplyFunction"
        /\ expression.b.kind = "Variable"
        /\ Value_evaluate(loaded, expression.a).result.kind = "Ok")
       => outcome =
            IF expression.b.name \in DOMAIN loaded
            THEN BinaryOperation(expression.kind,
                                 Value_evaluate(loaded, expression.a).result.value,
                                 loaded[expression.b.name])
            ELSE Err(UnboundVariable(expression.b.name))

\* f(1) + x where y is bound and x is not: the call bound x, and x is unbound
\* once it has returned
C10_Witness ==
    /\ pc = "done"
    /\ "y" \in DOMAIN loaded
    /\ expression = Add(Call("f", <<Lit(1)>>), Variable("x"))
    /\ outcome = Err(UnboundVariable("x"))

\* the value a name has in the overlay of a call: that of the last argument
\* whose parameter carries the name
LastArgumentOf(parameter_names, values, name) ==
    values[CHOOSE j \in 1..Len(parameter_names) :
               /\ parameter_names[j] = name
               /\ \A k \in (j + 1)..Len(parameter_names) : parameter_names[k] /= name]

\* the overlay the body of a call sees, stated on the caller's map
OverlayOf(caller_variables, parameter_names, values) ==
    LET names == {parameter_names[j] : j \in 1..Len(parameter_names)}
    IN  [k \in DOMAIN caller_variables \cup names |->
            IF k \in names THEN LastArgumentOf(parameter_names, values, k)
            ELSE caller_variables[k]]

\* C11: in a call every argument is evaluated in the caller's environment, not
\* in the overlay under construction: the call returns the error of the first
\* argument, left to right, that fails in the caller's environment, and
\* otherwise the value of the body in the caller's environment overlaid with
\* the arguments' values, the later argument winning a name two parameters
\* share.  So h(1, a) is 1 - a for the caller's a and fails UnboundVariable("a")
\* where the caller binds none, h(x, 1/0) fails on x and h(1/0, x) on the
\* division, and d(p, p) = p called as d(m, n) is n.
C11_ArgumentsInCallerEnvironment ==
    (/\ pc = "done"
     /\ expression.kind = "ApplyFunction"
     /\ IsFunction(Value_evaluate(loaded, expression.function).result))
    => LET function == Value_evaluate(loaded, expression.function).result.value.function
           arguments == expression.arguments
           results == [i \in 1..Len(arguments) |->
                          Value_evaluate(loaded, arguments[i]).result]
           failing == {i \in 1..Len(arguments) : results[i].kind /= "Ok"}
           first == CHOOSE i \in failing : \A j \in failing : i <= j
       IN  /\ Len(function.parameter_names) = Len(arguments) =>
                 outcome =
                     IF failing /= {} THEN results[first]
                     ELSE Evaluate(OverlayOf(loaded, function.parameter_names,
                                             [i \in 1..Len(arguments) |-> results[i].value]),
                                   function.body, MaxCallDepth - 1).result
           /\ expression = Call("h", <<Lit(1), Variable("a")>>) =>
                 outcome = IF "a" \in DOMAIN loaded
                           THEN EvaluateSubtract(SmallInt(Int_(1)), loaded["a"])
                           ELSE Err(UnboundVariable("a"))
           /\ expression = Call("h", <<Variable("x"), Divide(Lit(1), Lit(0))>>) =>
                 outcome = Err(UnboundVariable("x"))
           /\ expression = Call("h", <<Divide(Lit(1), Lit(0)), Variable("x")>>) =>
                 outcome = Err(DivisionByZero)
           /\ \A m, n \in 0..MaxLiteral :
                 expression = Call("d", <<Lit(m), Lit(n)>>) =>
                     outcome = Ok(SmallInt(Int_(n)))

\* the caller binds a to 10 and calls h(1, a): the second argument names the
\* first parameter
C11_Witness ==
    /\ pc = "done"
    /\ "a" \in DOMAIN loaded /\ loaded["a"] = SmallInt(Int_(10))
    /\ expression = Call("h", <<Lit(1), Variable("a")>>)
    /\ outcome = Ok(SmallInt(Int_(-9)))

(***************************************************************************)
(* The parser's claims, under SpecParse.                                   *)
(***************************************************************************)
IsAtom(token) == token.kind \in {"digit1", "alpha1"}
IsOperator(token) == token.kind = "tag" /\ token.text \in OperatorTags

\* atoms joined by binary operators: no parentheses, no unary minus
IsChain(tokens) ==
    /\ Len(tokens) % 2 = 1
    /\ \A i \in 1..Len(tokens) :
          IF i % 2 = 1 THEN IsAtom(tokens[i]) ELSE IsOperator(tokens[i])

LiteralsFitI64(tokens) ==
    \A i \in 1..Len(tokens) :
        tokens[i].kind = "digit1" => ParseI64(tokens[i].digits).some

RECURSIVE DecimalValue(_)
DecimalValue(digits) ==
    IF digits = <<>> THEN IntZero
    ELSE IntAdd(IntMul(DecimalValue(SubSeq(digits, 1, Len(digits) - 1)), Int_(10)),
                Int_(digits[Len(digits)]))

AtomTree(token) ==
    IF token.kind = "digit1" THEN Integer(DecimalValue(token.digits))
    ELSE Variable(token.text)

\* the order add < subtract < multiply < divide < power, loosest first
Looseness(text) ==
    CASE text = "+" -> 5 [] text = "-" -> 4 [] text = "*" -> 3
      [] text = "/" -> 2 [] text = "^" -> 1

ConstructorOf(text) ==
    CASE text = "+" -> "Add" [] text = "-" -> "Subtract" [] text = "*" -> "Multiply"
      [] text = "/" -> "Divide" [] text = "^" -> "Power"

\* the operator a chain splits at: the loosest one, and of several the last
SplitAt(tokens) ==
    CHOOSE i \in 1..Len(tokens) :
        /\ IsOperator(tokens[i])
        /\ \A j \in 1..Len(tokens) :
              IsOperator(tokens[j]) =>
                  \/ Looseness(tokens[j].text) < Looseness(tokens[i].text)
                  \/ Looseness(tokens[j].text) = Looseness(tokens[i].text) /\ j <= i

\* the tree of the ladder grammar, stated on the text
RECURSIVE GrammarTree(_)
GrammarTree(tokens) ==
    IF Len(tokens) = 1 THEN AtomTree(tokens[1])
    ELSE LET i == SplitAt(tokens)
         IN  Binary(ConstructorOf(tokens[i].text),
                    GrammarTree(SubSeq(tokens, 1, i - 1)),
                    GrammarTree(SubSeq(tokens, i + 1, Len(tokens))))

\* the iterative routine: read one operand of the next tighter level, then loop
\* consuming operator and operand
RECURSIVE ReadOperand(_, _)
RECURSIVE ReadPairs(_, _, _)
ReadPairs(level, tokens, lhs) ==
    IF tokens /= <<>> /\ IsOperator(Head(tokens)) /\ Looseness(Head(tokens).text) = level
    THEN LET rhs == ReadOperand(level - 1, Tail(tokens))
         IN  ReadPairs(level, rhs.rest,
                       Binary(ConstructorOf(Head(tokens).text), lhs, rhs.expression))
    ELSE [rest |-> tokens, expression |-> lhs]

ReadOperand(level, tokens) ==
    IF level = 0 THEN [rest |-> Tail(tokens), expression |-> AtomTree(Head(tokens))]
    ELSE LET first == ReadOperand(level - 1, tokens)
         IN  ReadPairs(level, first.rest, first.expression)

IterativeTree(tokens) == ReadOperand(5, tokens).expression

LadderTreeReturned ==
    /\ parsed.ok
    /\ parsed.rest = <<>>
    /\ parsed.expression = GrammarTree(input)
    /\ parsed.expression = IterativeTree(input)
    /\ (pc = "done" /\ input = OnePlusTwoTimesThree) => outcome = Ok(SmallInt(Int_(7)))
    /\ (pc = "done" /\ input = TwoPowerThreePowerTwo) => outcome = Ok(SmallInt(Int_(64)))

\* C1 (as stated): for every chain of atoms (integer literals or names) joined
\* by + - * / ^, parse_expression consumes the whole input and returns the tree
\* of the ladder grammar, which is the tree of the iterative routine;
\* `1 + 2 * 3` evaluates to 7 and `2 ^ 3 ^ 2` to 64.
C1_LadderTreeOfEveryChain ==
    (pc /= "parse" /\ IsChain(input)) => LadderTreeReturned

\* C1 (amended): the same, for every chain whose integer literals are no larger
\* than 9223372036854775807.
C1_LadderTreeOfI64Chains ==
    (pc /= "parse" /\ IsChain(input) /\ LiteralsFitI64(input)) => LadderTreeReturned

C1_Witness ==
    /\ pc = "done"
    /\ input = TwoPowerThreePowerTwo
    /\ parsed.expression =
           Power(Power(Integer(Int_(2)), Integer(Int_(3))), Integer(Int_(2)))
    /\ outcome = Ok(SmallInt(Int_(64)))

\* a `-` where an atom is expected: at the start, or after an operator, an
\* opening parenthesis or a comma
MinusAtAtomPosition(tokens, i) ==
    /\ tokens[i] = Tag("-")
    /\ \/ i = 1
       \/ tokens[i - 1].kind = "tag" /\ tokens[i - 1].text \in OperatorTags \cup {"(", ","}

HasUnaryMinus(tokens) == \E i \in 1..Len(tokens) : MinusAtAtomPosition(tokens, i)

FirstUnaryMinus(tokens) ==
    CHOOSE i \in 1..Len(tokens) :
        /\ MinusAtAtomPosition(tokens, i)
        /\ \A j \in 1..(i - 1) : ~MinusAtAtomPosition(tokens, j)

NoParentheses(tokens) ==
    \A i \in 1..Len(tokens) : tokens[i].kind = "tag" => tokens[i].text \in OperatorTags

BinaryOperatorsIn(tokens) ==
    Cardinality({i \in 1..Len(tokens) :
                    IsOperator(tokens[i]) /\ ~MinusAtAtomPosition(tokens, i)})

IsBinaryNode(e) == e.kind \in {"Add", "Subtract", "Multiply", "Divide", "Power"}

RECURSIVE Subtrees(_)
Subtrees(e) ==
    {e} \cup
    (CASE e.kind = "Negate" -> Subtrees(e.a)
       [] IsBinaryNode(e) -> Subtrees(e.a) \cup Subtrees(e.b)
       [] e.kind = "ApplyFunction" ->
            Subtrees(e.function)
            \cup UNION {Subtrees(e.arguments[k]) : k \in 1..Len(e.arguments)}
       [] OTHER -> {})

RECURSIVE SumOver(_, _)
SumOver(counts, k) == IF k = 0 THEN 0 ELSE counts[k] + SumOver(counts, k - 1)

RECURSIVE BinaryNodes(_)
BinaryNodes(e) ==
    CASE e.kind = "Negate" -> BinaryNodes(e.a)
      [] IsBinaryNode(e) -> 1 + BinaryNodes(e.a) + BinaryNodes(e.b)
      [] e.kind = "ApplyFunction" ->
           BinaryNodes(e.function)
           + SumOver([k \in 1..Len(e.arguments) |-> BinaryNodes(e.arguments[k])],
                     Len(e.arguments))
      [] OTHER -> 0

\* C2: when parse_expression meets `-` at an atom position, the operand of the
\* Negate node is the whole expression parse_expression parses from the text
\* after the `-`; without parentheses nothing is left for an enclosing operator,
\* so every binary operator to the right of the `-` is inside the Negate;
\* `-1+2` parses to Negate(Add(1, 2)) and evaluates to SmallInt(-3).
C2_NegateAbsorbsExpression ==
    (/\ pc /= "parse"
     /\ parsed.ok
     /\ HasUnaryMinus(input)
     /\ FirstUnaryMinus(input) <= Len(input) - Len(parsed.rest))
    => LET after == SubSeq(input, FirstUnaryMinus(input) + 1, Len(input))
           operand == parse_expression(after)
       IN  /\ operand.ok
           /\ Negate(operand.expression) \in Subtrees(parsed.expression)
           /\ NoParentheses(input) =>
                 /\ operand.rest = parsed.rest
                 /\ parsed.rest = <<>> =>
                       BinaryNodes(operand.expression) = BinaryOperatorsIn(after)
           /\ input = MinusOnePlusTwo =>
                 /\ parsed.expression = Negate(Add(Integer(Int_(1)), Integer(Int_(2))))
                 /\ pc = "done" => outcome = Ok(SmallInt(Int_(-3)))

C2_Witness ==
    /\ pc = "done"
    /\ input = MinusOnePlusTwo
    /\ parsed.expression = Negate(Add(Integer(Int_(1)), Integer(Int_(2))))
    /\ outcome = Ok(SmallInt(Int_(-3)))

====
